---------------------------- MODULE Spec2Model ----------------------------
(***************************************************************************)
(* Model of app.py (cheque-app): the stipend roster kept in one worksheet  *)
(* of a shared spreadsheet, the per-session cached snapshot of it, and the *)
(* transition batches (Export, Confirm-Collected, Revert-Export,           *)
(* Revert-Collected, Override-Approve, Edit-Fields) that write to it one   *)
(* store call at a time.                                                   *)
(*                                                                         *)
(* Text is modelled as a sequence of one-character strings, so that        *)
(* str.strip() and str.endswith(".0") are computed, not assumed.           *)
(* The workflow columns hold short tokens ("", "Y", "d1", ...).            *)
(***************************************************************************)
EXTENDS Integers, Sequences, FiniteSets, TLC

VARIABLES
    store,      \* the worksheet: the data rows under the header row
    snap,       \* snap[s]: the DataFrame fetch_data_cached holds for session s
    chk,        \* chk[s]: the confirmation checkbox the last script run rendered
    batch,      \* batch[s]: the transition batch session s is executing
    msg,        \* msg[s]: what the last handler of session s showed the user
    idval,      \* identifier normalizer: the value at hand
    idprev,     \* identifier normalizer: the value before the last clean_id
    idcalls,    \* identifier normalizer: number of clean_id applications so far
    book,       \* the spreadsheet's other worksheets: title -> data rows
    names,      \* the worksheet titles get_sheet_names_cached holds
    imp,        \* the import of tab1: where its handler is, what it is creating
    deleted,    \* titles of the worksheets del_worksheet has removed
    tab6        \* tab6[s]: saved_sheet_index, confirm_del_sheet, the sheet asked for

vars == <<store, snap, chk, batch, msg, idval, idprev, idcalls, book, names, imp,
          deleted, tab6>>

pipelineVars == <<store, snap, chk, batch, msg>>
normVars == <<idval, idprev, idcalls>>
importVars == <<book, names, imp>>
deleteVars == <<deleted, tab6>>
\* what the handlers of tab2..tab7 leave alone
asideVars == <<normVars, importVars, deleteVars>>

-----------------------------------------------------------------------------
(* Bounds *)

\* longest raw identifier enumerated for the normalizer on its own
MaxIdLen == 4

\* data rows of the worksheet
MaxRows == 2

-----------------------------------------------------------------------------
(* Text and the identifier normalizer *)

IdChars == {"1", "2", ".", "0", " "}

\* Python's None, and pandas' NaN (what conn.read yields for a blank cell)
NoneVal == <<"<None>">>
NaN == <<"<NaN>">>

RECURSIVE lstrip(_)
lstrip(s) == IF s # <<>> /\ Head(s) = " " THEN lstrip(Tail(s)) ELSE s

RECURSIVE rstrip(_)
rstrip(s) ==
    IF s # <<>> /\ s[Len(s)] = " " THEN rstrip(SubSeq(s, 1, Len(s) - 1)) ELSE s

strip(s) == rstrip(lstrip(s))

endswith_dot0(s) == Len(s) >= 2 /\ s[Len(s) - 1] = "." /\ s[Len(s)] = "0"

\* str(val): text is itself, NaN prints as "nan"
str(val) == IF val = NaN THEN <<"n", "a", "n">> ELSE val

clean_id(val) ==
    IF val = NoneVal THEN <<>>
    ELSE LET s == strip(str(val))
         IN  IF s = <<>> THEN <<>>
             ELSE IF endswith_dot0(s) THEN SubSeq(s, 1, Len(s) - 2)
             ELSE s

\* all texts over IdChars of length at most n
RECURSIVE TextsUpTo(_)
TextsUpTo(n) ==
    IF n = 0 THEN {<<>>}
    ELSE LET shorter == TextsUpTo(n - 1)
         IN  shorter \cup {Append(t, c) : t \in shorter, c \in IdChars}

RawValues == TextsUpTo(MaxIdLen) \cup {NoneVal, NaN}

-----------------------------------------------------------------------------
(* Cells, rows and the worksheet *)

EMPTY == <<>>
Y == <<"Y">>

UpperChar(c) == IF c = "y" THEN "Y" ELSE IF c = "n" THEN "N" ELSE c
upper(s) == [i \in DOMAIN s |-> UpperChar(s[i])]

\* SYSTEM_COLS and the columns the model keeps of REQUIRED_COLS
SystemCols == {"col", "doc", "cdate", "staff"}
Columns == {"id", "name", "f1", "f2"} \cup SystemCols

Sessions == {1, 2}

\* the sidebar's staff name of each session (the script stops while it is empty)
staff_name(s) == IF s = 1 THEN <<"A">> ELSE <<"B">>

\* datetime.now() as the handlers format it
Dates == {<<"d", "1">>}
today_of(d) == d
now_of(d) == d \o <<" ", "t">>

Kinds == {"export", "confirm", "revexp", "revcol", "override"}
Gated == {"revexp", "revcol", "override"}

Max(S) == CHOOSE x \in S : \A y \in S : y <= x

\* worksheet.col_values(id_idx): the header cell, then the id cells down to
\* the last non-blank one
col_values(st) ==
    LET used == {i \in 1..Len(st) : st[i].id # EMPTY}
        last == IF used = {} THEN 0 ELSE Max(used)
    IN  <<<<"I", "D">>>> \o [i \in 1..last |-> st[i].id]

\* id_map: clean_id -> row number, the header skipped and later rows winning
build_id_map(raw_ids) ==
    LET keys == {clean_id(raw_ids[j]) : j \in 2..Len(raw_ids)}
    IN  [k \in keys |-> Max({j \in 2..Len(raw_ids) : clean_id(raw_ids[j]) = k})]

\* update_cell that leaves a cell alone once it holds a value
update_cell_once(st, r_num, c, v) ==
    IF r_num - 1 \in DOMAIN st /\ st[r_num - 1][c] = EMPTY
      THEN [st EXCEPT ![r_num - 1][c] = v]
      ELSE st

\* worksheet.update_cell(r_num, column, value); sheet row r_num is data row r_num - 1
update_cell(st, r_num, c, v) ==
    IF r_num - 1 \in DOMAIN st THEN [st EXCEPT ![r_num - 1][c] = v] ELSE st

\* fetch_data_cached: a blank id cell arrives as NaN, every id goes through
\* clean_id, the other blanks are filled with ''
fetch_data(st) ==
    [i \in DOMAIN st |->
        [st[i] EXCEPT !.id = clean_id(IF st[i].id = EMPTY THEN NaN ELSE st[i].id)]]

-----------------------------------------------------------------------------
(* Stage predicates of the tabs, on a row of the snapshot *)

flag_is_Y(f) == upper(strip(f)) = Y

mask_ready(r) == flag_is_Y(r.f1) /\ flag_is_Y(r.f2) /\ r.doc = EMPTY
mask_conf(r) == r.doc # EMPTY /\ r.col # Y
mask_done(r) == r.col = Y
mask_fail(r) == (~flag_is_Y(r.f1) \/ ~flag_is_Y(r.f2)) /\ r.doc = EMPTY

mask_of(k, r) ==
    CASE k = "export" -> mask_ready(r)
      [] k = "confirm" -> mask_conf(r)
      [] k = "revexp" -> mask_conf(r)
      [] k = "revcol" -> mask_done(r)
      [] k = "override" -> mask_fail(r)

\* the two cells a transition writes, in the order the handler writes them
first_col(k) ==
    CASE k = "export" -> "doc"
      [] k = "confirm" -> "col"
      [] k = "revexp" -> "doc"
      [] k = "revcol" -> "col"
      [] k = "override" -> "f1"

second_col(k) ==
    CASE k = "export" -> "staff"
      [] k = "confirm" -> "cdate"
      [] k = "revexp" -> "staff"
      [] k = "revcol" -> "cdate"
      [] k = "override" -> "f2"

first_val(k, s, d) ==
    CASE k = "export" -> today_of(d)
      [] k = "confirm" -> Y
      [] k = "override" -> Y
      [] OTHER -> EMPTY

second_val(k, s, d) ==
    CASE k = "export" -> staff_name(s)
      [] k = "confirm" -> now_of(d)
      [] k = "override" -> Y
      [] OTHER -> EMPTY

\* calculate_stats with the waiting count forgetting the Collected test
calculate_stats_waiting_any(df) ==
    LET c1(r) == upper(strip(r.f1))
        c2(r) == upper(strip(r.f2))
        doc(r) == strip(r.doc)
        done(r) == upper(strip(r.col))
        is_eligible(r) == c1(r) = Y /\ c2(r) = Y
        count(P(_)) == Cardinality({i \in DOMAIN df : P(df[i])})
        ready(r) == is_eligible(r) /\ doc(r) = EMPTY
        waiting(r) == doc(r) # EMPTY
        finished(r) == done(r) = Y
        failed(r) == ~is_eligible(r) /\ doc(r) = EMPTY
    IN  [total |-> Len(df),
         ready |-> count(ready),
         waiting |-> count(waiting),
         finished |-> count(finished),
         failed |-> count(failed)]

\* calculate_stats
calculate_stats(df) ==
    LET c1(r) == upper(strip(r.f1))
        c2(r) == upper(strip(r.f2))
        doc(r) == strip(r.doc)
        done(r) == upper(strip(r.col))
        is_eligible(r) == c1(r) = Y /\ c2(r) = Y
        count(P(_)) == Cardinality({i \in DOMAIN df : P(df[i])})
        ready(r) == is_eligible(r) /\ doc(r) = EMPTY
        waiting(r) == doc(r) # EMPTY /\ done(r) # Y
        finished(r) == done(r) = Y
        failed(r) == ~is_eligible(r) /\ doc(r) = EMPTY
    IN  [total |-> Len(df),
         ready |-> count(ready),
         waiting |-> count(waiting),
         finished |-> count(finished),
         failed |-> count(failed)]

-----------------------------------------------------------------------------
(* The worksheets the model starts from *)

NameVals == {<<"p">>, <<"q">>}
N == <<"N">>

\* the reflection flags of a row as a roster file gives them
FlagPairs == {<<Y, Y>>, <<<<"y">>, N>>}

NewRow(id, fp) ==
    [id |-> id, name |-> <<"p">>, f1 |-> fp[1], f2 |-> fp[2],
     col |-> EMPTY, doc |-> EMPTY, cdate |-> EMPTY, staff |-> EMPTY]

\* id cells of a worksheet made or edited by hand
SheetIds == {<<"1">>, <<"2">>, <<"1", ".", "0", ".", "0">>, <<" ">>}

\* id cells of a roster file
FileIds == {<<" ", "1">>, <<"1", ".", "0", ".", "0", ".", "0">>, <<"2", ".", "0">>}

\* tab1 import: the id column through clean_id, SYSTEM_COLS set to ''
import_row(file_id, fp) == NewRow(clean_id(file_id), fp)

\* worksheets made or edited by hand, no id cell repeated
Sheets ==
    {sh \in [1..MaxRows -> {NewRow(id, fp) : id \in SheetIds, fp \in FlagPairs}] :
        \A i, j \in 1..MaxRows : i # j => sh[i].id # sh[j].id}

\* worksheets tab1 creates from a roster file whose ids normalize to distinct texts
ImportedSheets ==
    {sh \in [1..MaxRows -> {import_row(id, fp) : id \in FileIds, fp \in FlagPairs}] :
        \A i, j \in 1..MaxRows : i # j => clean_id(sh[i].id) # clean_id(sh[j].id)}

-----------------------------------------------------------------------------
(* Sessions: widgets, handlers and the batch loop *)

NoBox == [shown |-> "none", value |-> FALSE]

Idle == [pc |-> "idle", kind |-> "none", day |-> EMPTY, todo |-> <<>>,
         id_map |-> <<>>, r_num |-> 0, ex_list |-> <<>>,
         pre |-> <<>>, applied |-> <<>>, skipped |-> <<>>]

\* sel.iterrows(): the ticked rows of a tab's data editor as (idx, row), in the
\* order of the snapshot
RECURSIVE iterrows(_, _)
iterrows(df, sel) ==
    IF sel = {} THEN <<>>
    ELSE LET i == CHOOSE x \in sel : \A y \in sel : x <= y
         IN  <<[idx |-> i, row |-> df[i]]>> \o iterrows(df, sel \ {i})

Selectable(s, k) == {i \in DOMAIN snap[s] : mask_of(k, snap[s][i])}

\* st.checkbox inside the button's block: a widget the previous run did not
\* render starts unticked
checkbox(s, k, widget_value) ==
    IF chk[s].shown = k THEN widget_value ELSE FALSE

\* start_batch with the positions of the cached snapshot instead of a read of the
\* worksheet's id column
start_batch_cached(s, k, sel, d) ==
    [pc |-> "loop", kind |-> k, day |-> d, todo |-> iterrows(snap[s], sel),
     id_map |-> [t \in {clean_id(snap[s][i].id) : i \in DOMAIN snap[s]} |->
                    1 + Max({i \in DOMAIN snap[s] : clean_id(snap[s][i].id) = t})],
     r_num |-> 0, ex_list |-> <<>>, pre |-> store, applied |-> <<>>, skipped |-> <<>>]

\* the handler's store reads, then the loop is entered
start_batch(s, k, sel, d) ==
    [pc |-> "loop", kind |-> k, day |-> d, todo |-> iterrows(snap[s], sel),
     id_map |-> build_id_map(col_values(store)), r_num |-> 0,
     ex_list |-> <<>>, pre |-> store, applied |-> <<>>, skipped |-> <<>>]

\* One run of the script. clicked is the button whose click triggered the run
\* ("none" when another widget did), sel the ticked rows of that button's tab,
\* widget_value the confirmation checkbox's value as the browser sent it,
\* fails whether one of the handler's store reads raises.
ScriptRun(s, clicked, sel, d, widget_value, fails) ==
    LET asks == clicked \in Gated /\ sel # {}
        confirmed == asks /\ checkbox(s, clicked, widget_value)
        runs == clicked \in Kinds /\ sel # {} /\ (clicked \in Gated => confirmed)
    IN  /\ chk' = [chk EXCEPT ![s] =
                      IF asks THEN [shown |-> clicked, value |-> confirmed]
                      ELSE NoBox]
        /\ IF runs /\ ~fails
             THEN /\ batch' = [batch EXCEPT ![s] = start_batch(s, clicked, sel, d)]
                  /\ msg' = [msg EXCEPT ![s] = "busy"]
             ELSE /\ batch' = batch
                  /\ msg' = [msg EXCEPT ![s] = IF runs THEN "error" ELSE "none"]
        /\ UNCHANGED <<store, snap>>

\* the user ticks rows in a tab and presses its button
Press(s, k, sel, d, fails) ==
    /\ batch[s].pc = "idle"
    /\ sel # {}
    /\ sel \subseteq Selectable(s, k)
    /\ ScriptRun(s, k, sel, d, chk[s].value, fails)
    /\ UNCHANGED asideVars

\* the user ticks the confirmation checkbox a run has rendered
Tick(s) ==
    /\ batch[s].pc = "idle"
    /\ chk[s].shown # "none"
    /\ ScriptRun(s, "none", {}, EMPTY, ~chk[s].value, FALSE)
    /\ UNCHANGED asideVars

\* the refresh button, or the cache entry expiring: the next run fetches again
Refresh(s) ==
    /\ batch[s].pc = "idle"
    /\ snap[s] # fetch_data(store)
    /\ snap' = [snap EXCEPT ![s] = fetch_data(store)]
    /\ chk' = [chk EXCEPT ![s] = NoBox]
    /\ msg' = [msg EXCEPT ![s] = "none"]
    /\ UNCHANGED <<store, batch, asideVars>>

\* the loop takes the next selected row: first update_cell, or no match
LoopStep(s) ==
    LET b == batch[s]
        it == Head(b.todo)
        tid == clean_id(it.row.id)
    IN  /\ b.pc = "loop"
        /\ b.todo # <<>>
        /\ IF tid \in DOMAIN b.id_map
             THEN /\ store' = update_cell(store, b.id_map[tid], first_col(b.kind),
                                          first_val(b.kind, s, b.day))
                  /\ batch' = [batch EXCEPT ![s].pc = "mid",
                                            ![s].r_num = b.id_map[tid]]
             ELSE /\ store' = store
                  /\ batch' = [batch EXCEPT ![s].todo = Tail(b.todo),
                                            ![s].skipped = Append(b.skipped, it)]
        /\ UNCHANGED <<snap, chk, msg, asideVars>>

\* export_rec taking the row as it is after the transition
export_rec_post(row, s, d) ==
    [row |-> [row EXCEPT !.doc = today_of(d), !.staff = staff_name(s)],
     StaffName |-> staff_name(s), TodayDate |-> today_of(d)]

\* the exported record: the selected row plus StaffName and TodayDate
export_rec(row, s, d) == [row |-> row, StaffName |-> staff_name(s), TodayDate |-> today_of(d)]

\* second update_cell of the row, then the next row
WriteSecond(s) ==
    LET b == batch[s]
        it == Head(b.todo)
    IN  /\ b.pc = "mid"
        /\ store' = update_cell(store, b.r_num, second_col(b.kind),
                                second_val(b.kind, s, b.day))
        /\ batch' = [batch EXCEPT
                        ![s].pc = "loop",
                        ![s].todo = Tail(b.todo),
                        ![s].applied = Append(b.applied, it),
                        ![s].ex_list = IF b.kind = "export"
                                         THEN Append(b.ex_list, export_rec(it.row, s, b.day))
                                         ELSE b.ex_list]
        /\ UNCHANGED <<snap, chk, msg, asideVars>>

\* after the loop: the message; the cache cleared and the script rerun
Finish(s) ==
    LET b == batch[s]
        found == b.kind = "export" => b.ex_list # <<>>
    IN  /\ b.pc = "loop"
        /\ b.todo = <<>>
        /\ batch' = [batch EXCEPT ![s] = Idle]
        /\ msg' = [msg EXCEPT ![s] = IF found THEN "ok" ELSE "notfound"]
        /\ snap' = [snap EXCEPT ![s] = IF found THEN fetch_data(store) ELSE snap[s]]
        /\ chk' = [chk EXCEPT ![s] = IF found THEN NoBox ELSE chk[s]]
        /\ UNCHANGED <<store, asideVars>>

\* an update_cell raises: the except branch shows the error, nothing else
Fail(s) ==
    LET b == batch[s]
    IN  /\ \/ b.pc = "mid"
           \/ /\ b.pc = "loop"
              /\ b.todo # <<>>
              /\ clean_id(Head(b.todo).row.id) \in DOMAIN b.id_map
        /\ batch' = [batch EXCEPT ![s] = Idle]
        /\ msg' = [msg EXCEPT ![s] = "error"]
        /\ UNCHANGED <<store, snap, chk, asideVars>>

\* what the data editor of tab7 lets the user change in one sitting
EditFlagValues == {Y, N}

Edits(df) ==
    {df}
    \cup {[df EXCEPT ![1].name = n] : n \in NameVals}
    \cup {[df EXCEPT ![i].f2 = v] : i \in DOMAIN df, v \in EditFlagValues}

\* ws.update(data_to_write): the header and every row of the edited snapshot,
\* written from the top-left cell
ws_update(st, final_df) ==
    [i \in (DOMAIN st) \cup (DOMAIN final_df) |->
        IF i \in DOMAIN final_df THEN final_df[i] ELSE st[i]]

\* tab7: save all edits
EditSave(s, edited_df, fails) ==
    /\ batch[s].pc = "idle"
    /\ edited_df \in Edits(snap[s])
    /\ IF fails
         THEN /\ msg' = [msg EXCEPT ![s] = "error"]
              /\ UNCHANGED <<store, snap, chk>>
         ELSE /\ store' = ws_update(store, edited_df)
              /\ snap' = [snap EXCEPT ![s] = fetch_data(store')]
              /\ msg' = [msg EXCEPT ![s] = "ok"]
              /\ chk' = [chk EXCEPT ![s] = NoBox]
    /\ UNCHANGED <<batch, asideVars>>

\* the worksheet edited outside the app (rows sorted, inserted above, cut and
\* pasted): the data rows in another order
RowsMoved ==
    /\ \E p \in Permutations(DOMAIN store) :
          /\ store' = [i \in DOMAIN store |-> store[p[i]]]
          /\ store' # store
    /\ UNCHANGED <<snap, chk, batch, msg, asideVars>>

-----------------------------------------------------------------------------
(* tab1: a new worksheet from an uploaded roster file *)

\* the title of the worksheet the sessions have selected (store)
SelectedTitle == "cur"
NewTitles == {"t1"}

\* [ws.title for ws in sh.worksheets()]
worksheet_titles(bk) == {SelectedTitle} \cup DOMAIN bk

\* an uploaded file: whether pd.read_excel can read it, its number of columns,
\* and its rows (first column and the two reflection columns)
FileCols == {8, 9}
UploadFiles ==
    [readable : BOOLEAN, ncols : FileCols,
     rows : [1..MaxRows -> [id : FileIds, fp : {<<Y, Y>>}]]]

\* new_df after the renaming, SYSTEM_COLS = '' and clean_id on the id column
new_df(file) == [i \in DOMAIN file.rows |-> import_row(file.rows[i].id, file.rows[i].fp)]

\* sh.add_worksheet(title=...): a worksheet with no cell filled
add_worksheet(bk, title) ==
    [t \in DOMAIN bk \cup {title} |-> IF t = title THEN <<>> ELSE bk[t]]

NoImport == [pc |-> "idle", title |-> "", rows |-> <<>>,
             before |-> [book |-> <<>>, store |-> <<>>]]

\* the button of tab1, as far as add_worksheet; api_fails: add_worksheet raises
\* (the title is taken in the spreadsheet, or the call fails)
ImportPress(s, title, file, api_fails) ==
    LET before == [book |-> book, store |-> store]
        ends(pc, m) == /\ imp' = [pc |-> pc, title |-> title, rows |-> <<>>, before |-> before]
                       /\ msg' = [msg EXCEPT ![s] = m]
                       /\ UNCHANGED book
    IN  /\ batch[s].pc = "idle"
        /\ imp.pc # "created"
        /\ IF title \in names THEN ends("rejected", "exists")
           ELSE IF ~file.readable THEN ends("error", "error")
           ELSE IF file.ncols < 9 THEN ends("rejected", "columns")
           ELSE IF api_fails \/ title \in worksheet_titles(book) THEN ends("error", "error")
           ELSE /\ book' = add_worksheet(book, title)
                /\ imp' = [pc |-> "created", title |-> title, rows |-> new_df(file),
                           before |-> before]
                /\ msg' = [msg EXCEPT ![s] = "busy"]
        /\ UNCHANGED <<store, snap, chk, batch, names, normVars, deleteVars>>

\* new_ws.update(data_to_write) succeeds: success message, cache cleared, rerun
ImportWrite(s) ==
    /\ imp.pc = "created"
    /\ book' = [book EXCEPT ![imp.title] = imp.rows]
    /\ imp' = [imp EXCEPT !.pc = "ok"]
    /\ msg' = [msg EXCEPT ![s] = "ok"]
    /\ names' = worksheet_titles(book')
    /\ snap' = [snap EXCEPT ![s] = fetch_data(store)]
    /\ chk' = [chk EXCEPT ![s] = NoBox]
    /\ UNCHANGED <<store, batch, normVars, deleteVars>>

\* new_ws.update raises: the except branch shows the error, nothing else
ImportFail(s) ==
    /\ imp.pc = "created"
    /\ imp' = [imp EXCEPT !.pc = "error"]
    /\ msg' = [msg EXCEPT ![s] = "error"]
    /\ UNCHANGED <<store, snap, chk, batch, book, names, normVars, deleteVars>>

-----------------------------------------------------------------------------
(* The sidebar's sheet selection and tab6: delete this worksheet *)

OtherTitles == {"t1", "t2"}

\* the worksheets in the order sh.worksheets() lists them
TitleOrder == <<SelectedTitle, "t1", "t2">>

\* the worksheets the spreadsheet holds
live_titles == worksheet_titles(book) \ deleted

\* sheet_names: the cached titles as the list the selectbox shows
sheet_list(ns) == SelectSeq(TitleOrder, LAMBDA t : t \in ns)

NoDelete == [index |-> 0, confirm |-> FALSE, asked |-> ""]

\* saved_sheet_index as a script run uses it: back to 0 when out of range
sidebar_index(s) ==
    IF tab6[s].index >= Len(sheet_list(names)) THEN 0 ELSE tab6[s].index

selected_sheet_name(s) == sheet_list(names)[sidebar_index(s) + 1]

\* the user picks another sheet in the selectbox
SheetSwitch(s, t) ==
    /\ t \in names
    /\ t # selected_sheet_name(s)
    /\ tab6' = [tab6 EXCEPT ![s].index =
                    (CHOOSE j \in DOMAIN sheet_list(names) : sheet_list(names)[j] = t) - 1]
    /\ UNCHANGED <<pipelineVars, normVars, importVars, deleted>>

\* the button "delete this worksheet"
DeleteRequest(s) ==
    /\ IF Len(sheet_list(names)) <= 1
         THEN /\ tab6' = [tab6 EXCEPT ![s].index = sidebar_index(s)]
              /\ msg' = [msg EXCEPT ![s] = "error"]
         ELSE /\ tab6' = [tab6 EXCEPT ![s] = [index |-> sidebar_index(s), confirm |-> TRUE,
                                              asked |-> selected_sheet_name(s)]]
              /\ msg' = [msg EXCEPT ![s] = "none"]
    /\ UNCHANGED <<store, snap, chk, batch, normVars, importVars, deleted>>

\* the button "confirm deletion": sh.worksheet raises for a title that is gone,
\* del_worksheet raises for the spreadsheet's last worksheet (the API refuses
\* to remove it); neither is caught. Otherwise the selected sheet is deleted,
\* the cache cleared and the script rerun.
DeleteConfirm(s) ==
    LET t == selected_sheet_name(s)
    IN  /\ tab6[s].confirm
        /\ IF t \notin live_titles \/ live_titles = {t}
             THEN /\ tab6' = [tab6 EXCEPT ![s].index = sidebar_index(s)]
                  /\ msg' = [msg EXCEPT ![s] = "error"]
                  /\ UNCHANGED <<deleted, names>>
             ELSE /\ deleted' = deleted \cup {t}
                  /\ names' = worksheet_titles(book) \ deleted'
                  /\ tab6' = [tab6 EXCEPT ![s] = [index |-> sidebar_index(s), confirm |-> FALSE,
                                                  asked |-> tab6[s].asked]]
                  /\ msg' = [msg EXCEPT ![s] = "ok"]
        /\ UNCHANGED <<store, snap, chk, batch, normVars, book, imp>>

\* the button "cancel"
DeleteCancel(s) ==
    /\ tab6[s].confirm
    /\ tab6' = [tab6 EXCEPT ![s] = [index |-> sidebar_index(s), confirm |-> FALSE,
                                    asked |-> ""]]
    /\ UNCHANGED <<pipelineVars, normVars, importVars, deleted>>

-----------------------------------------------------------------------------
(* The identifier normalizer on its own *)

Normalize ==
    /\ idcalls < 2
    /\ idprev' = idval
    /\ idval' = clean_id(idval)
    /\ idcalls' = idcalls + 1
    /\ UNCHANGED <<pipelineVars, importVars, deleteVars>>

-----------------------------------------------------------------------------
(* Specifications *)

InitSessions ==
    /\ snap = [s \in Sessions |-> fetch_data(store)]
    /\ chk = [s \in Sessions |-> NoBox]
    /\ batch = [s \in Sessions |-> Idle]
    /\ msg = [s \in Sessions |-> "none"]

InitNormIdle ==
    /\ idval = EMPTY
    /\ idprev = EMPTY
    /\ idcalls = 0

\* nothing deleted, the first sheet selected, tab6 not used
InitDeleteIdle ==
    /\ deleted = {}
    /\ tab6 = [s \in Sessions |-> NoDelete]

\* no other worksheet, tab1 not used
InitImportIdle ==
    /\ book = <<>>
    /\ names = worksheet_titles(book)
    /\ imp = NoImport

\* one session on any worksheet, store calls may raise
Init ==
    /\ store \in Sheets
    /\ InitSessions
    /\ InitNormIdle
    /\ InitImportIdle
    /\ InitDeleteIdle

Next ==
    \E s \in {1} :
        \/ \E k \in Kinds, sel \in SUBSET (1..MaxRows), d \in Dates, fails \in BOOLEAN :
              Press(s, k, sel, d, fails)
        \/ Tick(s)
        \/ Refresh(s)
        \/ LoopStep(s)
        \/ WriteSecond(s)
        \/ Finish(s)
        \/ Fail(s)
        \/ \E e \in Edits(snap[s]), fails \in BOOLEAN : EditSave(s, e, fails)

Spec == Init /\ [][Next]_vars

\* one session on an imported roster with distinct ids, no store call raises:
\* the snapshot is fetched again after every batch
InitSolo ==
    /\ store \in ImportedSheets
    /\ InitSessions
    /\ InitNormIdle
    /\ InitImportIdle
    /\ InitDeleteIdle

NextSolo ==
    \E s \in {1} :
        \/ \E k \in Kinds, sel \in SUBSET (1..MaxRows), d \in Dates :
              Press(s, k, sel, d, FALSE)
        \/ Tick(s)
        \/ LoopStep(s)
        \/ WriteSecond(s)
        \/ Finish(s)
        \/ \E e \in Edits(snap[s]) : EditSave(s, e, FALSE)

SpecSolo == InitSolo /\ [][NextSolo]_vars

\* one session whose user answers every confirmation before doing anything else
\* and keeps using every button that has rows to act on, all of them ticked
PressAll(s, k) ==
    /\ chk[s].shown = "none"
    /\ \E d \in Dates : Press(s, k, Selectable(s, k), d, FALSE)

NextPersistent ==
    \E s \in {1} :
        \/ \E k \in Kinds : PressAll(s, k)
        \/ Tick(s)
        \/ LoopStep(s)
        \/ WriteSecond(s)
        \/ Finish(s)
        \/ /\ chk[s].shown = "none"
           /\ \E e \in Edits(snap[s]) : EditSave(s, e, FALSE)

\* the handler runs to its end, a rendered confirmation is answered, and the
\* Export button and the three confirmed buttons are pressed again whenever they
\* have rows again and again
FairPersistent ==
    /\ WF_vars(LoopStep(1) \/ WriteSecond(1) \/ Finish(1))
    /\ WF_vars(Tick(1))
    /\ \A k \in {"export"} \cup Gated : SF_vars(PressAll(1, k))

\* imported rosters whose ids clean_id leaves as they are
PlainSheets == {sh \in ImportedSheets : \A i \in 1..MaxRows : clean_id(sh[i].id) = sh[i].id}

InitPersistent ==
    /\ store \in PlainSheets
    /\ InitSessions
    /\ InitNormIdle
    /\ InitImportIdle
    /\ InitDeleteIdle

SpecPersistent == InitPersistent /\ [][NextPersistent]_vars /\ FairPersistent

\* two sessions, each with the snapshot its own cache holds, exporting and
\* confirming on the same roster; no store call raises
NextDuo ==
    \E s \in Sessions :
        \/ \E k \in {"export", "confirm"}, sel \in SUBSET (1..MaxRows), d \in Dates :
              Press(s, k, sel, d, FALSE)
        \/ Refresh(s)
        \/ LoopStep(s)
        \/ WriteSecond(s)
        \/ Finish(s)

SpecDuo == InitSolo /\ [][NextDuo]_vars

\* one session exporting and confirming, no store call raises, and the
\* worksheet's rows are moved by hand at any time
NextMoved ==
    \/ \E s \in {1} :
          \/ \E k \in {"export", "confirm"}, sel \in SUBSET (1..MaxRows), d \in Dates :
                Press(s, k, sel, d, FALSE)
          \/ Refresh(s)
          \/ LoopStep(s)
          \/ WriteSecond(s)
          \/ Finish(s)
    \/ RowsMoved

SpecMoved == InitSolo /\ [][NextMoved]_vars

\* two sessions on a spreadsheet of three worksheets: selecting, asking for
\* deletion, confirming, cancelling
InitDelete ==
    /\ store \in PlainSheets
    /\ InitSessions
    /\ InitNormIdle
    /\ book = [t \in OtherTitles |-> store]
    /\ names = worksheet_titles(book)
    /\ imp = NoImport
    /\ InitDeleteIdle

NextDelete ==
    \E s \in Sessions :
        \/ \E t \in {SelectedTitle} \cup OtherTitles : SheetSwitch(s, t)
        \/ DeleteRequest(s)
        \/ DeleteConfirm(s)
        \/ DeleteCancel(s)

SpecDelete == InitDelete /\ [][NextDelete]_vars

\* tab1 used again and again on a spreadsheet that holds the selected roster
InitImport ==
    /\ store \in PlainSheets
    /\ InitSessions
    /\ InitNormIdle
    /\ InitImportIdle
    /\ InitDeleteIdle

NextImport ==
    \E s \in {1} :
        \/ \E title \in NewTitles \cup {SelectedTitle}, file \in UploadFiles, api_fails \in BOOLEAN :
              ImportPress(s, title, file, api_fails)
        \/ ImportWrite(s)
        \/ ImportFail(s)

SpecImport == InitImport /\ [][NextImport]_vars

\* clean_id applied twice to every raw value
InitNorm ==
    /\ store = <<>>
    /\ InitSessions
    /\ idval \in RawValues
    /\ idprev = idval
    /\ idcalls = 0
    /\ InitImportIdle
    /\ InitDeleteIdle

NextNorm == Normalize

SpecNorm == InitNorm /\ [][NextNorm]_vars

-----------------------------------------------------------------------------
(* Stages of a row, as section 4.2 words them on the tabs' masks *)

NotEligible(r) == mask_fail(r)
EligiblePendingExport(r) == mask_ready(r)
AwaitingCollection(r) == mask_conf(r)
Collected(r) == mask_done(r)

StagesOf(r) ==
    {st \in {"NotEligible", "EligiblePendingExport", "AwaitingCollection", "Collected"} :
        \/ st = "NotEligible" /\ NotEligible(r)
        \/ st = "EligiblePendingExport" /\ EligiblePendingExport(r)
        \/ st = "AwaitingCollection" /\ AwaitingCollection(r)
        \/ st = "Collected" /\ Collected(r)}

StageSum(df) ==
    LET st == calculate_stats(df)
    IN  st.ready + st.waiting + st.finished + st.failed

\* a batch whose loop has run to its end and whose result is about to be shown
LoopDone(s, k) ==
    /\ batch[s].pc = "loop"
    /\ batch[s].todo = <<>>
    /\ batch[s].kind = k

\* the columns a transition does not write
OtherCols(k) == Columns \ {first_col(k), second_col(k)}

-----------------------------------------------------------------------------
(* Claims *)

\* C1: in every store state a single session reaches from an imported roster,
\* with the snapshot fetched again after each batch, a row whose Collected is
\* 'Y' has a non-empty DocGeneratedDate.
C1_CollectedImpliesDoc ==
    \A i \in DOMAIN store : store[i].col = Y => store[i].doc # EMPTY

\* C2: no observable store state has DocGeneratedDate non-empty with
\* ResponsibleStaff empty, or the reverse; the states between the cell writes
\* of a batch and those a raising write leaves behind included.
C2_PairedDocStaff ==
    \A i \in DOMAIN store : (store[i].doc = EMPTY) <=> (store[i].staff = EMPTY)

\* C3: when a store call of a batch raises, the error is shown and the store
\* holds what it held when the batch started.
C3_FailureAppliesNothing ==
    [][\A s \in Sessions :
          (batch[s].pc # "idle" /\ batch'[s].pc = "idle" /\ msg'[s] = "error")
              => store' = batch[s].pre]_vars

\* C4: when a batch ends, every selected row is in exactly one of applied
\* (writes issued) and unmatched (no write), and unmatched rows are reported:
\* the plain success message is shown only when there are none.
C4_UnmatchedReported ==
    [][\A s \in Sessions :
          (batch[s].pc = "loop" /\ batch[s].todo = <<>> /\ batch'[s].pc = "idle")
              => /\ {it.idx : it \in {batch[s].applied[j] : j \in DOMAIN batch[s].applied}}
                      \cap {it.idx : it \in {batch[s].skipped[j] : j \in DOMAIN batch[s].skipped}}
                      = {}
                 /\ batch[s].skipped # <<>> => msg'[s] # "ok"]_vars

\* C5: clean_id is idempotent: a second application changes nothing.
C5_CleanIdIdempotent ==
    idcalls = 2 => idval = idprev

\* C6: no cell write is issued for a selected row whose id normalizes to the
\* empty string.
C6_EmptyIdNeverWritten ==
    \A s \in Sessions :
        batch[s].pc = "mid" => clean_id(Head(batch[s].todo).row.id) # EMPTY

CollectedWithoutDoc(r) == r.col = Y /\ r.doc = EMPTY

C8_EditKeepsSystemCols ==
    [][(\A s \in Sessions : batch[s].pc = "idle" /\ batch'[s].pc = "idle")
          => \A i \in DOMAIN store : \A c \in SystemCols :
                 i \in DOMAIN store' /\ store'[i][c] = store[i][c]]_vars

\* C9: after Export, each selected EligiblePendingExport row whose id is in the
\* store is AwaitingCollection in the store with DocGeneratedDate = today and
\* ResponsibleStaff = actor; after Revert-Export it is EligiblePendingExport
\* again with both cleared; its other fields are as before the batch.
C9_ExportThenRevert ==
    \A s \in Sessions :
        /\ LoopDone(s, "export") =>
              \A j \in DOMAIN batch[s].applied :
                  LET i == batch[s].applied[j].idx
                  IN  /\ AwaitingCollection(store[i])
                      /\ store[i].doc = today_of(batch[s].day)
                      /\ store[i].staff = staff_name(s)
                      /\ \A c \in OtherCols("export") : store[i][c] = batch[s].pre[i][c]
        /\ LoopDone(s, "revexp") =>
              \A j \in DOMAIN batch[s].applied :
                  LET i == batch[s].applied[j].idx
                  IN  /\ EligiblePendingExport(store[i])
                      /\ store[i].doc = EMPTY
                      /\ store[i].staff = EMPTY
                      /\ \A c \in OtherCols("revexp") : store[i][c] = batch[s].pre[i][c]

\* C10: a gated action writes nothing unless confirmed, and ticking the
\* confirmation it asked for makes the action run on the selected rows.
C10_ConfirmedActionRuns ==
    [][\A s \in Sessions :
          /\ (batch'[s].kind \in Gated /\ batch[s].pc = "idle")
                => (chk'[s].shown = batch'[s].kind /\ chk'[s].value)
          /\ Tick(s) => (batch'[s].pc = "loop" /\ batch'[s].kind = chk[s].shown)]_vars

\* C10, the other side: no run of the script ever starts a gated batch.
GatedBatchNeverStarts ==
    \A s \in Sessions : batch[s].kind \notin Gated

\* C13: clean_id agrees with the reference normalizer on every raw value:
\* absent, empty and whitespace-only values give "", any other value gives its
\* trimmed text with one trailing ".0" removed.
Absent(val) == val = NoneVal \/ val = NaN

normalize_ref(val) ==
    IF Absent(val) THEN <<>>
    ELSE LET t == strip(val)
         IN  IF endswith_dot0(t) THEN SubSeq(t, 1, Len(t) - 2) ELSE t

C13_AgreesWithReference ==
    idcalls >= 1 => idval = normalize_ref(idprev)

\* C14: the export artifact (ex_list) of an Export batch holds one record per
\* applied selected row, in selection order, and none for an unmatched row;
\* each record carries the selected row's values from before the transition
\* (the row the session selected, DocGeneratedDate still empty), StaffName = the
\* actor and TodayDate = the date written to DocGeneratedDate.
C14_ArtifactMatchesApplied ==
    \A s \in Sessions :
        batch[s].kind = "export" =>
            LET b == batch[s]
            IN  /\ Len(b.ex_list) = Len(b.applied)
                /\ \A j \in DOMAIN b.applied :
                      LET it == b.applied[j]
                          rec == b.ex_list[j]
                      IN  /\ clean_id(it.row.id) \in DOMAIN b.id_map
                          /\ rec.row = snap[s][it.idx]
                          /\ rec.row.doc = EMPTY
                          /\ rec.StaffName = staff_name(s)
                          /\ rec.TodayDate =
                                store[b.id_map[clean_id(it.row.id)] - 1].doc
                /\ \A j, k \in DOMAIN b.applied :
                      j < k => b.applied[j].idx < b.applied[k].idx
                /\ \A k \in DOMAIN b.skipped :
                      /\ clean_id(b.skipped[k].row.id) \notin DOMAIN b.id_map
                      /\ \A j \in DOMAIN b.applied : b.applied[j].idx # b.skipped[k].idx

\* C14 witness: an Export loop has ended with one selected row applied and
\* recorded and another selected row unmatched.
C14_AppliedAndUnmatched ==
    /\ LoopDone(1, "export")
    /\ Len(batch[1].ex_list) = 1
    /\ batch[1].applied # <<>>
    /\ batch[1].skipped # <<>>

\* C17: when a Confirm-Collected loop has ended, every matched selected row has
\* Collected = 'Y' and a non-empty CollectedDate in the store; when a
\* Revert-Collected loop has ended both are empty and the row is
\* AwaitingCollection; DocGeneratedDate and ResponsibleStaff of the row are as
\* before the batch.
C17_CollectedPaired ==
    \A s \in Sessions :
        /\ LoopDone(s, "confirm") =>
              \A j \in DOMAIN batch[s].applied :
                  LET i == batch[s].applied[j].idx
                  IN  /\ store[i].col = Y
                      /\ store[i].cdate # EMPTY
                      /\ store[i].doc = batch[s].pre[i].doc
                      /\ store[i].staff = batch[s].pre[i].staff
        /\ LoopDone(s, "revcol") =>
              \A j \in DOMAIN batch[s].applied :
                  LET i == batch[s].applied[j].idx
                  IN  /\ store[i].col = EMPTY
                      /\ store[i].cdate = EMPTY
                      /\ AwaitingCollection(store[i])
                      /\ store[i].doc = batch[s].pre[i].doc
                      /\ store[i].staff = batch[s].pre[i].staff

\* C18: a batch issues cell writes for a selected row only if that row, as the
\* store held it when the batch read the store, satisfied the transition's
\* precondition.
C18_PreconditionHeldInStore ==
    \A s \in Sessions :
        batch[s].pc = "mid" =>
            mask_of(batch[s].kind, batch[s].pre[Head(batch[s].todo).idx])

\* C11: no stage is terminal: for a user who keeps asking for Revert-Collected
\* and answers its confirmation, a Collected row leaves Collected again.
C11_NoTerminalStage ==
    \A i \in 1..MaxRows : Collected(store[i]) ~> ~Collected(store[i])

\* C12: Export, Revert-Export, Export: once Revert-Export is asked for a row that
\* Export has taken to AwaitingCollection, a later Export batch takes the row again
\* and leaves it as a single Export does: DocGeneratedDate and ResponsibleStaff
\* non-empty, every other field as it was (unless tab7 made the row ineligible).
C12_RoundTripExport ==
    \A i \in 1..MaxRows :
        (chk[1].shown = "revexp" /\ AwaitingCollection(snap[1][i]) /\ AwaitingCollection(store[i]))
            ~> \/ /\ LoopDone(1, "export")
                  /\ \E j \in DOMAIN batch[1].applied : batch[1].applied[j].idx = i
                  /\ batch[1].pre[i].doc = EMPTY
                  /\ store[i].doc # EMPTY
                  /\ store[i].staff # EMPTY
                  /\ \A c \in OtherCols("export") : store[i][c] = batch[1].pre[i][c]
               \/ NotEligible(store[i])

\* C15: Override-Approve asked for the NotEligible rows is applied: its batch
\* ends with both flags of every selected row 'Y', no other field of those rows
\* changed, the rows EligiblePendingExport, and the rows not selected unchanged.
C15_OverrideApplied ==
    (chk[1].shown = "override" /\ \E i \in 1..MaxRows : NotEligible(snap[1][i]))
        ~> /\ LoopDone(1, "override")
           /\ batch[1].applied # <<>>
           /\ \A i \in 1..MaxRows :
                 IF \E j \in DOMAIN batch[1].applied : batch[1].applied[j].idx = i
                   THEN /\ store[i].f1 = Y
                        /\ store[i].f2 = Y
                        /\ \A c \in OtherCols("override") : store[i][c] = batch[1].pre[i][c]
                        /\ EligiblePendingExport(store[i])
                   ELSE store[i] = batch[1].pre[i]

\* C16: an import that ends rejected or with an error has created no worksheet
\* and changed no existing one: the spreadsheet is as it was when the button was
\* pressed.
C16_RejectedImportChangesNothing ==
    imp.pc \in {"rejected", "error"} =>
        /\ book = imp.before.book
        /\ store = imp.before.store

C21_WriteLandsOnMatchingId ==
    [][\A s \in Sessions :
          LET b == batch[s]
              nb == batch'[s]
          IN  /\ (b.pc = "loop" /\ nb.pc = "mid") =>
                    clean_id(store[nb.r_num - 1].id) = clean_id(Head(b.todo).row.id)
              /\ (b.pc = "mid" /\ nb.pc = "loop") =>
                    clean_id(store[b.r_num - 1].id) = clean_id(Head(b.todo).row.id)
      ]_vars

\* C22: whenever the user can select rows (no batch running), every row a
\* tab's selection list shows is, in the worksheet as this session's writes
\* have left it, still in the stage that tab lists.
C22_ListsFollowOwnWrites ==
    \A s \in {1} :
        batch[s].pc = "idle" =>
            \A k \in Kinds : \A i \in Selectable(s, k) :
                i \in DOMAIN store /\ mask_of(k, fetch_data(store)[i])

\* C23: a confirmed deletion removes exactly the worksheet that was selected
\* when the deletion was asked for, and the spreadsheet keeps at least one
\* worksheet.
C23_DeletesTheSheetAskedFor ==
    [][/\ \A s \in Sessions :
            (deleted' # deleted /\ tab6[s].confirm /\ ~tab6'[s].confirm) =>
                deleted' \ deleted = {tab6[s].asked}
       /\ worksheet_titles(book') \ deleted' # {}
      ]_vars

\* C23 (the last worksheet): the spreadsheet always holds a worksheet.
C23_AWorksheetRemains == live_titles # {}

=============================================================================
